---- MODULE Spec2Model ----
(***************************************************************************)
(* Model of src/service/query_info.rs of discv5: the QueryInfo record,     *)
(* QueryInfo::rpc_request and the distance-spread function                 *)
(* findnode_log2distance.                                                  *)
(*                                                                         *)
(* A NodeId is a 256-bit identifier.  It is represented by the set of the  *)
(* positions of its one-bits, position 0 being the least significant bit   *)
(* (the lowest bit of raw byte 31) and position 255 the most significant   *)
(* (the highest bit of raw byte 0).  XOR of two identifiers is then the    *)
(* symmetric difference of the two sets.                                   *)
(***************************************************************************)
EXTENDS Integers, Sequences, FiniteSets

VARIABLES
    query,        \* the live QueryInfo, or NoQuery
    request,      \* the RequestBody last returned by rpc_request, or NoRequest
    pc,           \* "idle" | "loop" | "returned" | "panicked"
    caller,       \* "none" | "rpc_request" | "direct": who invoked findnode_log2distance
    target,       \* argument `target` of the last invocation
    peer,         \* argument `peer` of the last invocation
    size,         \* argument `size` of the last invocation
    distance,     \* local `distance` (NoDistance when log2_distance gave None)
    result_list,  \* local `result_list`
    difference,   \* local `difference`
    ret           \* Option<Vec<u64>> returned by the last invocation

vars == <<query, request, pc, caller, target, peer, size, distance,
          result_list, difference, ret>>

----------------------------------------------------------------------------
(* Program constants *)

\* `if size > 127 { panic!(..) }`
MaxIterations == 127

\* `if distance + difference <= 256`
MaxDistance == 256

\* width of a NodeId in bits (32 raw bytes)
IdBits == 256

----------------------------------------------------------------------------
(* Bounds of the model *)

\* sizes 0..MaxSize are drawn for distances_to_request / size
MaxSize == 128

\* directly invoked peers (the unit tests' way of calling) include every
\* one-bit id whose bit lies within EdgeSpan positions of either end
EdgeSpan == 8

----------------------------------------------------------------------------
(* Input sets *)

Zero == {}

\* the all-zero id with one bit set
Bit(b) == {b}

\* positions used by the unit tests: byte[10] = 1, byte[31] = 8, byte[0] = 8
TestBits == {168, 3, 251}

\* identifiers that differ from Zero in exactly one bit: every log2 distance
\* 1..256 occurs between Zero and one of them
OneBitIds == {Bit(b) : b \in 0 .. IdBits - 1}

\* an identifier with several bits set, used as a second target / key
Other == {3, 1, 0}

\* targets of queries and of direct invocations
QueryIds == {Zero, Other}

\* peers handed to rpc_request for a query with the given target
RpcPeers(t) ==
    IF t = Zero
    THEN {Zero} \cup OneBitIds
    ELSE {Other, Zero, Bit(3), Bit(255), {3, 1}, {200, 3, 1, 0}}

\* peers of direct invocations with the given target
DirectPeers(t) ==
    IF t = Zero
    THEN {Zero} \cup {Bit(b) : b \in {x \in 0 .. IdBits - 1 :
                                       \/ x < EdgeSpan
                                       \/ x >= IdBits - EdgeSpan
                                       \/ x % 16 = 0
                                       \/ x \in TestBits}}
    ELSE {Other, {200, 3, 1, 0}}

Sizes == 0 .. MaxSize

QueryTags == {"FindNode", "FindValue"}

----------------------------------------------------------------------------
(* Values *)

NoQuery == [tag |-> "NoQuery"]

NoRequest == [kind |-> "NoRequest"]

\* the distance local when `log2_distance` returned None (never a valid distance)
NoDistance == -1

\* outcomes of an invocation of findnode_log2distance
Unset == [status |-> "Unset", val |-> <<>>]

None == [status |-> "None", val |-> <<>>]

Some(list) == [status |-> "Some", val |-> list]

Panic == [status |-> "Panic", val |-> <<>>]

\* `QueryInfo { query_type, untrusted_enrs, callback, distances_to_request }`;
\* untrusted_enrs and callback are never read or written by this file's code
QueryInfo(tag, id, n) ==
    [tag |-> "QueryInfo", query_type |-> [tag |-> tag, id |-> id],
     distances_to_request |-> n]

----------------------------------------------------------------------------
(* Key::log2_distance *)

Xor(a, b) == (a \ b) \cup (b \ a)

Highest(bits) == CHOOSE x \in bits : \A y \in bits : y <= x

\* 256 - leading_zeros(a XOR b), None when the keys are equal
log2_distance(a, b) ==
    IF Xor(a, b) = {} THEN NoDistance ELSE Highest(Xor(a, b)) + 1

----------------------------------------------------------------------------
(* findnode_log2distance *)

\* variant: the bound is off by one
SizeTooLargeOffByOne(n) == n > MaxIterations + 1

\* variant: the bound is not checked
SizeNeverTooLarge(n) == FALSE

\* `if size > 127 { panic!(..) }`
SizeTooLarge(n) == n > MaxIterations

\* variant: the list starts empty
LoopInitEmpty(d) == [result_list |-> <<>>, difference |-> 1]

\* `let mut result_list = vec![distance]; let mut difference = 1;`
LoopInit(d) == [result_list |-> <<d>>, difference |-> 1]

\* variant: the upper candidate is pushed without the range check
PushUpperUnchecked(list, d, diff) == Append(list, d + diff)

\* `if distance + difference <= 256 { result_list.push(distance + difference) }`
PushUpper(list, d, diff) ==
    IF d + diff <= MaxDistance THEN Append(list, d + diff) ELSE list

\* variant: saturating_sub in place of checked_sub
PushLowerSaturating(list, d, diff) ==
    Append(list, IF d - diff >= 0 THEN d - diff ELSE 0)

\* `if let Some(d) = distance.checked_sub(difference) { result_list.push(d) }`
PushLower(list, d, diff) ==
    IF d - diff >= 0 THEN Append(list, d - diff) ELSE list

\* `difference += 1`
NextDifference(diff) == diff + 1

\* variant: the lower candidate is tried before the upper one
LoopBodyLowerFirst(st, d, n) ==
    LET lo == PushLower(st.result_list, d, st.difference)
        up == IF Len(lo) < n THEN PushUpper(lo, d, st.difference) ELSE lo
    IN  [result_list |-> up, difference |-> NextDifference(st.difference)]

\* one iteration of `while result_list.len() < size { .. }`
LoopBody(st, d, n) ==
    LET up == PushUpper(st.result_list, d, st.difference)
        lo == IF Len(up) < n THEN PushLower(up, d, st.difference) ELSE up
    IN  [result_list |-> lo, difference |-> NextDifference(st.difference)]

\* `while result_list.len() < size`
LoopGuard(st, n) == Len(st.result_list) < n

RECURSIVE RunLoop(_, _, _)
RunLoop(st, d, n) ==
    IF LoopGuard(st, n) THEN RunLoop(LoopBody(st, d, n), d, n) ELSE st

\* variant: the list is returned without the `[..size]` slice
SliceWhole(list, n) == Some(list)

\* `Some(result_list[..size].to_vec())`; slicing past the end panics
Slice(list, n) ==
    IF n > Len(list) THEN Panic ELSE Some(SubSeq(list, 1, n))

\* the value returned after the loop, with the final values of the locals
Return(st, d, n) ==
    [out |-> Slice(st.result_list, n), distance |-> d,
     result_list |-> st.result_list, difference |-> st.difference]

\* an exit before the loop: the panic, or the `?` on log2_distance
EarlyExit(out) ==
    [out |-> out, distance |-> NoDistance, result_list |-> <<>>, difference |-> 0]

\* the first local: `dst_key.log2_distance(&target.into())`
Distance(t, p) == log2_distance(p, t)

\* the whole function: its outcome and the final values of its locals
findnode_log2distance(t, p, n) ==
    IF SizeTooLarge(n)
    THEN EarlyExit(Panic)
    ELSE IF Distance(t, p) = NoDistance
         THEN EarlyExit(None)
         ELSE Return(RunLoop(LoopInit(Distance(t, p)), Distance(t, p), n),
                     Distance(t, p), n)

----------------------------------------------------------------------------
(* QueryInfo::rpc_request *)

\* variant: the fallback list is empty
unwrap_or_empty(opt) == opt.val

\* `.unwrap_or_else(|| vec![0])`
unwrap_or_else(opt) == IF opt.status = "None" THEN <<0>> ELSE opt.val

\* `RequestBody::FindNode { distances }`
FindNodeBody(node_id, distances) == [kind |-> "FindNode", distances |-> distances]

\* `RequestBody::FindValue { key, distances }`
FindValueBody(key, distances) ==
    [kind |-> "FindValue", key |-> key, distances |-> distances]

\* variant: both arms build a FindNode body
RequestBodyAlwaysFindNode(q, opt) ==
    FindNodeBody(q.query_type.id, unwrap_or_else(opt))

\* `match self.query_type { FindNode(node_id) => .., FindValue(key) => .. }`
RequestBody(q, opt) ==
    IF q.query_type.tag = "FindNode"
    THEN FindNodeBody(q.query_type.id, unwrap_or_else(opt))
    ELSE FindValueBody(q.query_type.id, unwrap_or_else(opt))

----------------------------------------------------------------------------
(* State machine *)

Init ==
    /\ query = NoQuery
    /\ request = NoRequest
    /\ pc = "idle"
    /\ caller = "none"
    /\ target = Zero
    /\ peer = Zero
    /\ size = 0
    /\ distance = NoDistance
    /\ result_list = <<>>
    /\ difference = 0
    /\ ret = Unset

\* forget the frame of the last invocation
ClearFrame ==
    /\ caller' = "none"
    /\ target' = Zero
    /\ peer' = Zero
    /\ size' = 0
    /\ distance' = NoDistance
    /\ result_list' = <<>>
    /\ difference' = 0
    /\ ret' = Unset

\* a QueryInfo is built by a struct literal: every field value is accepted
NewQuery ==
    /\ pc = "idle"
    /\ query = NoQuery
    /\ caller = "none"
    /\ \E tag \in QueryTags, id \in QueryIds, n \in Sizes :
           query' = QueryInfo(tag, id, n)
    /\ UNCHANGED <<request, pc, caller, target, peer, size, distance,
                   result_list, difference, ret>>

\* QueryInfo::rpc_request(&self, peer)
rpc_request ==
    /\ pc = "idle"
    /\ query # NoQuery
    /\ caller = "none"
    /\ \E p \in RpcPeers(query.query_type.id) :
       \E r \in {findnode_log2distance(query.query_type.id, p,
                                       query.distances_to_request)} :
           /\ caller' = "rpc_request"
           /\ target' = query.query_type.id
           /\ peer' = p
           /\ size' = query.distances_to_request
           /\ distance' = r.distance
           /\ result_list' = r.result_list
           /\ difference' = r.difference
           /\ ret' = r.out
           /\ IF r.out.status = "Panic"
              THEN pc' = "panicked" /\ request' = request
              ELSE pc' = "returned" /\ request' = RequestBody(query, r.out)
    /\ UNCHANGED query

\* the caller takes the request; the query stays live for the next peer
TakeRequest ==
    /\ pc = "returned"
    /\ caller = "rpc_request"
    /\ pc' = "idle"
    /\ request' = NoRequest
    /\ ClearFrame
    /\ UNCHANGED query

\* the query pool retires the query
Retire ==
    /\ pc = "idle"
    /\ query # NoQuery
    /\ caller = "none"
    /\ query' = NoQuery
    /\ UNCHANGED <<request, pc, caller, target, peer, size, distance,
                   result_list, difference, ret>>

\* findnode_log2distance(target, peer, size) invoked on its own, up to the loop
Call ==
    /\ pc = "idle"
    /\ query = NoQuery
    /\ caller = "none"
    /\ caller' = "direct"
    /\ \E t \in QueryIds : \E p \in DirectPeers(t), n \in Sizes :
           /\ target' = t
           /\ peer' = p
           /\ size' = n
           /\ IF SizeTooLarge(n)
              THEN /\ pc' = "panicked"
                   /\ ret' = Panic
                   /\ UNCHANGED <<distance, result_list, difference>>
              ELSE IF Distance(t, p) = NoDistance
                   THEN /\ pc' = "returned"
                        /\ ret' = None
                        /\ UNCHANGED <<distance, result_list, difference>>
                   ELSE /\ pc' = "loop"
                        /\ distance' = Distance(t, p)
                        /\ result_list' = LoopInit(Distance(t, p)).result_list
                        /\ difference' = LoopInit(Distance(t, p)).difference
                        /\ UNCHANGED ret
    /\ UNCHANGED <<query, request>>

\* one iteration of the while loop
LoopIter ==
    /\ pc = "loop"
    /\ LoopGuard([result_list |-> result_list, difference |-> difference], size)
    /\ \E st \in {LoopBody([result_list |-> result_list, difference |-> difference],
                           distance, size)} :
           /\ result_list' = st.result_list
           /\ difference' = st.difference
    /\ UNCHANGED <<query, request, pc, caller, target, peer, size, distance, ret>>

\* the loop condition fails: slice and return
LoopExit ==
    /\ pc = "loop"
    /\ ~LoopGuard([result_list |-> result_list, difference |-> difference], size)
    /\ ret' = Slice(result_list, size)
    /\ pc' = IF Slice(result_list, size).status = "Panic" THEN "panicked" ELSE "returned"
    /\ UNCHANGED <<query, request, caller, target, peer, size, distance,
                   result_list, difference>>

\* the direct caller drops the returned value
Drop ==
    /\ pc = "returned"
    /\ caller = "direct"
    /\ pc' = "idle"
    /\ ClearFrame
    /\ UNCHANGED <<query, request>>

Next ==
    \/ NewQuery
    \/ rpc_request
    \/ TakeRequest
    \/ Retire
    \/ Call
    \/ LoopIter
    \/ LoopExit
    \/ Drop

Spec == Init /\ [][Next]_vars

\* the loop runs to completion once entered: nothing preempts a function call
FairSpec == Spec /\ WF_vars(LoopIter) /\ WF_vars(LoopExit)

----------------------------------------------------------------------------
(* Vocabulary of the properties *)

\* the true log2 distance between the arguments of the last invocation
TrueDistance == log2_distance(peer, target)

\* an invocation has run to its end (returned or panicked)
Finished == ret.status # "Unset"

\* the values of a sequence
Values(list) == {list[i] : i \in 1 .. Len(list)}

Min(S) == CHOOSE x \in S : \A y \in S : x <= y

Max(S) == CHOOSE x \in S : \A y \in S : y <= x

\* the first step at which a candidate of distance d falls outside 0..256
FirstClippedStep(d) == IF d + 1 <= MaxDistance + 1 - d THEN d + 1 ELSE MaxDistance + 1 - d

\* the lower side is the one that runs out first
LowerClipsFirst(d) == d + 1 <= MaxDistance + 1 - d

\* the element expected at 0-based index i of the spread around d
Elem(d, i) ==
    IF i = 0 THEN d
    ELSE IF i <= 2 * (FirstClippedStep(d) - 1)
         THEN IF i % 2 = 1 THEN d + (i + 1) \div 2 ELSE d - i \div 2
         ELSE IF LowerClipsFirst(d)
              THEN d + FirstClippedStep(d) + (i - (2 * FirstClippedStep(d) - 1))
              ELSE d - FirstClippedStep(d) - (i - (2 * FirstClippedStep(d) - 1))

\* the spread of n distances around d
ExpectedSpread(d, n) == [i \in 1 .. n |-> Elem(d, i - 1)]

----------------------------------------------------------------------------
(* Properties *)

\* C1: for target # peer and size <= 127 the function returns Some list with
\* exactly `size` elements, each in 0..256.
C1_LengthAndRange ==
    (Finished /\ target # peer /\ size <= MaxIterations) =>
        /\ ret.status = "Some"
        /\ Len(ret.val) = size
        /\ \A i \in 1 .. Len(ret.val) : ret.val[i] \in 0 .. MaxDistance

\* C1 witness: a full-length list returned right at the upper end of the range
C1_Witness ==
    /\ ret.status = "Some"
    /\ size = MaxIterations
    /\ TrueDistance = MaxDistance
    /\ Len(ret.val) = MaxIterations

\* C2: while neither candidate of step k is clipped, 0-based index 2k-1 holds
\* d+k and 0-based index 2k holds d-k (the '+' candidate comes first).
C2_Alternation ==
    ret.status = "Some" =>
        \A k \in 1 .. MaxIterations :
            (TrueDistance + k <= MaxDistance /\ TrueDistance - k >= 0) =>
                /\ (2 * k <= Len(ret.val) => ret.val[2 * k] = TrueDistance + k)
                /\ (2 * k + 1 <= Len(ret.val) => ret.val[2 * k + 1] = TrueDistance - k)

\* C2 witness: the list of test_log2distance
C2_Witness ==
    /\ ret.status = "Some"
    /\ TrueDistance = 169
    /\ ret.val = <<169, 170, 168, 171, 167, 172, 166, 173, 165>>

\* C3: clipped candidates are omitted: the values are pairwise distinct and
\* all in 0..256, and from the first step at which one side is out of range
\* every further element comes from the other side, in consecutive order.
C3_Clipping ==
    ret.status = "Some" =>
        /\ Cardinality(Values(ret.val)) = Len(ret.val)
        /\ Values(ret.val) \subseteq 0 .. MaxDistance
        /\ \A pos \in 1 .. Len(ret.val) :
              pos >= 2 * FirstClippedStep(TrueDistance) =>
                  ret.val[pos] =
                      IF LowerClipsFirst(TrueDistance)
                      THEN TrueDistance + FirstClippedStep(TrueDistance)
                               + (pos - 2 * FirstClippedStep(TrueDistance))
                      ELSE TrueDistance - FirstClippedStep(TrueDistance)
                               - (pos - 2 * FirstClippedStep(TrueDistance))

\* C3 witness: the lists of test_log2distance_lower and test_log2distance_upper
C3_Witness ==
    /\ ret.status = "Some"
    /\ \/ ret.val = <<4, 5, 3, 6, 2, 7, 1, 8, 0, 9, 10>>
       \/ ret.val = <<252, 253, 251, 254, 250, 255, 249, 256, 248, 247, 246>>
    /\ caller = "direct"

\* C4 as stated: for every size <= 127, size 0 included, the returned list
\* has a first element and it is the true distance.
C4_Original ==
    (ret.status = "Some" /\ size <= MaxIterations) =>
        /\ Len(ret.val) >= 1
        /\ ret.val[1] = TrueDistance

\* C4 amended: for every size in 1..127 the first element of the returned
\* list is the true distance; for size 0 the returned list is empty.
C4_Centering ==
    ret.status = "Some" =>
        /\ size >= 1 => (Len(ret.val) >= 1 /\ ret.val[1] = TrueDistance)
        /\ size = 0 => ret.val = <<>>

\* C4 witness: a one-element list holding the true distance
C4_Witness ==
    /\ ret.status = "Some"
    /\ size = 1
    /\ ret.val = <<TrueDistance>>
    /\ TrueDistance = 256

\* C5: when the peer is the query's target/key and size <= 127, the function
\* returns None and rpc_request returns a request of the query's kind whose
\* distance list is <<0>>.
C5_Fallback ==
    (Finished /\ target = peer /\ size <= MaxIterations) =>
        /\ ret.status = "None"
        /\ caller = "rpc_request" =>
              /\ pc = "returned"
              /\ request.kind = query.query_type.tag
              /\ request.distances = <<0>>

\* C5 witness: a FindValue query whose key is the contacted peer
C5_Witness ==
    /\ caller = "rpc_request"
    /\ target = peer
    /\ target = Other
    /\ request.kind = "FindValue"
    /\ request.distances = <<0>>
    /\ size = MaxIterations

\* C6: with size > 127 an invocation panics, whatever the target and peer:
\* nothing is returned and rpc_request produces no request.
C6_FatalBound ==
    (caller # "none" /\ size > MaxIterations) =>
        /\ pc = "panicked"
        /\ ret.status = "Panic"
        /\ request.kind = "NoRequest"

\* C6 witness: rpc_request panics although the peer is the target
C6_Witness ==
    /\ caller = "rpc_request"
    /\ size = MaxIterations + 1
    /\ target = peer
    /\ pc = "panicked"

\* C7 as stated: every live QueryInfo has distances_to_request <= 127.
C7_Original ==
    query.tag = "QueryInfo" => query.distances_to_request <= MaxIterations

\* C7 amended: a QueryInfo with distances_to_request > 127 can be built; the
\* bound is enforced by rpc_request, which panics on it, so every request
\* comes from a QueryInfo with distances_to_request <= 127.
C7_RequestImpliesBound ==
    /\ request.kind # "NoRequest" =>
          /\ query.tag = "QueryInfo"
          /\ query.distances_to_request <= MaxIterations
    /\ (caller = "rpc_request" /\ query.distances_to_request > MaxIterations) =>
          pc = "panicked"

\* C7 witness: a request built for a query right at the bound
C7_Witness ==
    /\ request.kind # "NoRequest"
    /\ query.distances_to_request = MaxIterations
    /\ Len(request.distances) = MaxIterations

\* C8: a FindNode query yields a FindNode body carrying only the distance
\* list, a FindValue query a FindValue body carrying key = id and the list;
\* the list is what findnode_log2distance returned (<<0>> on None), which
\* depends on the id, the peer and the size only, not on the query type.
C8_RequestShape ==
    request.kind # "NoRequest" =>
        /\ request.kind = query.query_type.tag
        /\ request.kind = "FindNode" => DOMAIN request = {"kind", "distances"}
        /\ request.kind = "FindValue" =>
              /\ DOMAIN request = {"kind", "key", "distances"}
              /\ request.key = query.query_type.id
        /\ request.distances = IF ret.status = "None" THEN <<0>> ELSE ret.val
        /\ request.distances =
              IF query.query_type.id = peer
              THEN <<0>>
              ELSE ExpectedSpread(log2_distance(peer, query.query_type.id),
                                  query.distances_to_request)

\* C8 witness: a FindValue body with its key and a clipped distance list
C8_Witness ==
    /\ request.kind = "FindValue"
    /\ request.key = Other
    /\ peer = Bit(255)
    /\ request.distances = <<256, 255, 254, 253>>

\* the number of loop iterations performed so far by the last invocation
Iterations == difference - 1

\* the last invocation got past the panic and the `?`: its loop is run
LoopRuns == distance # NoDistance

\* C9 as stated: for every size in 0..127 the loop ends after at most
\* size - 1 iterations.
C9_Original ==
    LoopRuns => Iterations <= size - 1

\* C9 amended: the loop terminates; every iteration appends at least one value
\* in 0..256; it ends after at most size - 1 iterations when size >= 1 and
\* after none when size = 0; `difference` never exceeds 127.
C9_Termination ==
    /\ [](difference <= MaxIterations)
    /\ [](LoopRuns => /\ size >= 1 => Iterations <= size - 1
                      /\ size = 0 => Iterations = 0)
    /\ [][LoopIter =>
            /\ Len(result_list') > Len(result_list)
            /\ \A i \in Len(result_list) + 1 .. Len(result_list') :
                  result_list'[i] \in 0 .. MaxDistance]_vars
    /\ (pc = "loop") ~> (pc = "returned")

\* C9 witness: the longest loop, 126 iterations on one side only
C9_Witness ==
    /\ pc = "returned"
    /\ caller = "direct"
    /\ size = MaxIterations
    /\ Iterations = MaxIterations - 1
    /\ difference = MaxIterations

\* C10: for size >= 1 the returned values are exactly the integers lo..hi of
\* one interval with 0 <= lo <= d <= hi <= 256 and hi - lo + 1 = size.
C10_Contiguous ==
    (ret.status = "Some" /\ size >= 1) =>
        /\ Values(ret.val) = Min(Values(ret.val)) .. Max(Values(ret.val))
        /\ 0 <= Min(Values(ret.val))
        /\ Min(Values(ret.val)) <= TrueDistance
        /\ TrueDistance <= Max(Values(ret.val))
        /\ Max(Values(ret.val)) <= MaxDistance
        /\ Max(Values(ret.val)) - Min(Values(ret.val)) + 1 = size

\* C10 witness: an interval cut off at 0 and extended upwards
C10_Witness ==
    /\ ret.status = "Some"
    /\ TrueDistance = 2
    /\ size = 100
    /\ Values(ret.val) = 0 .. 99

====
